---- MODULE Spec2Model ----
(***************************************************************************)
(* Verification model of impsia_python_toolbox / sidlogism_python_toolbox. *)
(*                                                                         *)
(*   Spec, FairSpec : SubprocessRunner.run_commandline together with the   *)
(*                    child process it starts (subprocess_tools.py)        *)
(*   SanSpec        : sanitize_input_string (misc_common_tools.py)         *)
(*                                                                         *)
(* Optional[T] values of the source are modelled as sets: {} is None and   *)
(* {v} is the value v.                                                     *)
(***************************************************************************)
EXTENDS Integers, Sequences, FiniteSets, TLC

VARIABLES
    \* ---- host and module state (subprocess_tools.py) ----
    os_name,            \* os.name of the host
    caller_ids,         \* [uid, gid] of the calling process
    cwd,                \* os.getcwd() of the calling process
    environ,            \* os.environ of the calling process
    pipe_encoding,      \* SubprocessRunner.pipe_encoding
    \* ---- one call of run_commandline ----
    pc,                 \* position of the caller
    commandline_args,
    timeout,
    username,
    warnings,           \* warnings logged by the call
    results,            \* the dict "results"
    exc,                \* exception that left run_commandline ("" = none)
    expired,            \* whether the timeout of the call has expired
    pw_lookup_done,     \* whether pwd.getpwnam has been called
    new_env,            \* the local new_env (None while unset)
    preexec_todo,       \* calls of preexec_fn the child has still to make
    \* ---- the child process ----
    child,              \* "none" | "preexec" | "running" | "zombie" | "reaped"
    child_trace,        \* system calls the child made, in order
    child_ids,          \* [uid, gid] of the child (None before fork)
    child_env,          \* environment the child was started with (None before fork)
    child_exit,         \* [code, stdout, stderr] once the child has ended (else None)
    child_error,        \* failure the child reported before exec ("" = none)
    \* ---- one call of sanitize_input_string ----
    san_pc,
    san_module,
    user_string,
    encoding,
    whitelist,
    blacklist,
    san_result,
    san_result2,
    \* ---- one call of get_pipes_default_encoding_name ----
    enc_pc,
    stream,             \* the stream argument: [is_textio, encoding]
    last_resort_encoding,
    probes,             \* what setlocale and the three probes do on this host
    enc_result,
    \* ---- calls of sanitize_userinput_path ----
    path_pc,
    path_module,        \* "sidlogism" or "impsia"
    file_mode,          \* access the caller has to the files of the file system
    path,               \* the path argument
    path_encoding,      \* the encoding argument
    flags,              \* the twelve mustbe_/maybe_ arguments
    path_result,
    path_result2,       \* result of the call on the returned path
    \* ---- one call of strip_fileextension ----
    strip_pc,
    strip_module,       \* "sidlogism" or "impsia"
    file_basename,      \* the argument
    strip_result

run_vars == <<os_name, caller_ids, cwd, environ, pipe_encoding, pc,
              commandline_args, timeout, username, warnings, results, exc,
              expired, pw_lookup_done, new_env, preexec_todo, child, child_trace,
              child_ids, child_env, child_exit, child_error>>

san_vars == <<san_pc, san_module, user_string, encoding, whitelist, blacklist,
              san_result, san_result2>>

enc_vars == <<enc_pc, stream, last_resort_encoding, probes, enc_result>>

path_vars == <<path_pc, path_module, file_mode, path, path_encoding, flags,
               path_result, path_result2>>

strip_vars == <<strip_pc, strip_module, file_basename, strip_result>>

other_vars == <<enc_vars, path_vars, strip_vars>>

vars == <<run_vars, san_vars, other_vars>>

----------------------------------------------------------------------------
(* Optional values *)

None == {}

Some(v) == {v}

Get(opt) == CHOOSE v \in opt : TRUE

\* Python truthiness of an Optional[str]: None and '' are falsy
Truthy(opt) == opt # None /\ Get(opt) # ""

----------------------------------------------------------------------------
(* Bounds of the model *)

MaxTimeout == 1

MaxExitCode == 1

MaxOut == 1

MaxLen == 3

MaxLinks == 2

----------------------------------------------------------------------------
(* Constants of subprocess_tools.py *)

KEY_SUCCESSFUL_PROCESS == "p_success"

KEY_TIMEOUT_PROCESS == "p_timeout"

KEY_FAILED_PROCESS == "p_fail"

OutcomeKeys == {KEY_SUCCESSFUL_PROCESS, KEY_TIMEOUT_PROCESS, KEY_FAILED_PROCESS}

----------------------------------------------------------------------------
(* The host: operating system, user database, programs, environment *)

\* the names registered for os.name
OsNames == {"posix", "nt", "java"}

\* "import pwd" at module level: the pwd module does not exist on Windows
HasPwd(os) == os # "nt"

\* the Unix password database read by pwd.getpwnam
PasswdDb ==
    ("alice" :> [pw_uid |-> 1000, pw_gid |-> 100, pw_dir |-> "/home/alice"])

\* identities a caller of run_commandline may have: root, or the unprivileged bob
CallerIds == {[uid |-> 0, gid |-> 0], [uid |-> 1001, gid |-> 100]}

\* programs the exec of the child can find
InstalledPrograms == {"echo", "cat"}

\* environments of the calling process
Environs ==
    { ("HOME" :> "/root") @@ ("LOGNAME" :> "root") @@ ("USER" :> "root")
        @@ ("PWD" :> "/old") @@ ("PATH" :> "/bin"),
      ("HOME" :> "/root") @@ ("PATH" :> "/bin") @@ ("PYTHONUTF8" :> "1") }

PipeEncodings == {"UTF-8", "cp850"}

\* bytes a child may write: 'h' and 0xFF
Bytes == {104, 255}

RECURSIVE SeqsUpTo(_, _)
\* all sequences over S of length at most n
SeqsUpTo(S, n) ==
    IF n = 0 THEN {<<>>}
    ELSE LET shorter == SeqsUpTo(S, n - 1)
         IN  shorter \cup {Append(q, x) : q \in shorter, x \in S}

Outputs == SeqsUpTo(Bytes, MaxOut)

\* arguments offered to run_commandline
CommandLines == {<<"echo", "hello">>, <<"cat", "-">>, <<"nonexistent_prog">>}

Timeouts == {None} \cup {Some(t) : t \in 1..MaxTimeout}

Usernames == {None, Some(""), Some("alice"), Some("ghost")}

----------------------------------------------------------------------------
(* Library behaviour used by run_commandline *)

\* str.strip() on the arguments offered
ArgStrip(arg) == IF arg \in {"-", " - ", "- "} THEN "-" ELSE arg

\* one byte decoded in the given encoding: the code point, or None when the
\* byte is invalid there (0xFF never occurs in UTF-8; cp850 maps it to U+00A0)
DecodeByte(b, enc) ==
    IF b < 128 THEN Some(b)
    ELSE IF enc = "cp850" /\ b = 255 THEN Some(160)
    ELSE None

\* bytes.decode(encoding, errors='namereplace'): 'namereplace' is an
\* encode-only error handler, so an invalid byte makes the decoder raise
\* TypeError; None stands for that exception.
Decode(bytes, enc) ==
    IF \E i \in 1..Len(bytes) : DecodeByte(bytes[i], enc) = None
    THEN None
    ELSE Some([i \in 1..Len(bytes) |-> Get(DecodeByte(bytes[i], enc))])

\* kernel rule for setgid/setuid: allowed for root, or when nothing changes
MaySetId(ids, field, id) == ids.uid = 0 \/ ids[field] = id

\* variant: the closure changes the UID before the GID
UidBeforeGid(user_uid, user_gid) ==
    << [call |-> "setuid", field |-> "uid", id |-> user_uid],
       [call |-> "setgid", field |-> "gid", id |-> user_gid] >>

\* the calls of the closure returned by
\* get_inner_function_object_setting_uid_and_gid, in execution order
get_inner_function_object_setting_uid_and_gid(user_uid, user_gid) ==
    << [call |-> "setgid", field |-> "gid", id |-> user_gid],
       [call |-> "setuid", field |-> "uid", id |-> user_uid] >>

\* variant: the child environment is built from scratch, not from a copy
NewEnvWithoutCopy(env, homedir, user, workdir) ==
    ("HOME" :> homedir) @@ ("LOGNAME" :> user) @@ ("PWD" :> workdir)
        @@ ("USER" :> user)

\* new_env = os.environ.copy(); new_env.update({...})
NewEnv(env, homedir, user, workdir) ==
    (("HOME" :> homedir) @@ ("LOGNAME" :> user) @@ ("PWD" :> workdir)
        @@ ("USER" :> user)) @@ env

----------------------------------------------------------------------------
(* SubprocessRunner.run_commandline and the child process *)

NoResults == [k \in {} |-> {}]

RunInit ==
    /\ os_name \in OsNames
    /\ caller_ids \in CallerIds
    /\ cwd = "/work"
    /\ environ \in Environs
    /\ pipe_encoding \in PipeEncodings
    /\ pc = "unloaded"
    /\ commandline_args = <<>>
    /\ timeout = None
    /\ username = None
    /\ warnings = {}
    /\ results = NoResults
    /\ exc = ""
    /\ expired = FALSE
    /\ pw_lookup_done = FALSE
    /\ new_env = None
    /\ preexec_todo = <<>>
    /\ child = "none"
    /\ child_trace = <<>>
    /\ child_ids = None
    /\ child_env = None
    /\ child_exit = None
    /\ child_error = ""

SanIdle ==
    /\ san_pc = "off"
    /\ san_module = ""
    /\ user_string = <<>>
    /\ encoding = ""
    /\ whitelist = <<>>
    /\ blacklist = <<>>
    /\ san_result = None
    /\ san_result2 = None

EncIdle ==
    /\ enc_pc = "off"
    /\ stream = [is_textio |-> FALSE, encoding |-> None]
    /\ last_resort_encoding = ""
    /\ probes = <<>>
    /\ enc_result = None

PathIdle ==
    /\ path_pc = "off"
    /\ path_module = ""
    /\ file_mode = {}
    /\ path = <<>>
    /\ path_encoding = ""
    /\ flags = <<>>
    /\ path_result = None
    /\ path_result2 = None

StripIdle ==
    /\ strip_pc = "off"
    /\ strip_module = ""
    /\ file_basename = <<>>
    /\ strip_result = None

Init == RunInit /\ SanIdle /\ EncIdle /\ PathIdle /\ StripIdle

call_vars == <<commandline_args, timeout, username>>

\* what a finished call leaves: "returned" with results, or "raised" with exc
Done == {"returned", "raised"}

host_vars == <<os_name, caller_ids, cwd, environ, pipe_encoding>>

child_vars == <<preexec_todo, child, child_trace, child_ids, child_env,
                child_exit, child_error>>

\* variant: the completed process is stored before the exit code is looked at
CompletedOutcomeStoredFirst(res, args, code, out, err) ==
    (KEY_SUCCESSFUL_PROCESS :>
        [args |-> args, returncode |-> code, stdout |-> out, stderr |-> err])
    @@ (IF code # 0
        THEN KEY_FAILED_PROCESS :>
               [cmd |-> args, returncode |-> code, output |-> out, stderr |-> err]
        ELSE res)
    @@ res

\* the try/except around subprocess.run(check=True) for a child that ended on
\* its own: CalledProcessError for a nonzero exit code, else CompletedProcess
CompletedOutcome(res, args, code, out, err) ==
    IF code # 0
    THEN (KEY_FAILED_PROCESS :>
            [cmd |-> args, returncode |-> code, output |-> out, stderr |-> err])
         @@ res
    ELSE (KEY_SUCCESSFUL_PROCESS :>
            [args |-> args, returncode |-> code, stdout |-> out, stderr |-> err])
         @@ res

\* variant: the timeout is reported as a failed process
TimeoutOutcomeAsFailed(res, args, to) ==
    (KEY_FAILED_PROCESS :> [cmd |-> args, timeout |-> to]) @@ res

\* the except-branch for TimeoutExpired
TimeoutOutcome(res, args, to) ==
    (KEY_TIMEOUT_PROCESS :> [cmd |-> args, timeout |-> to]) @@ res

\* the module is imported; "import pwd" fails where there is no pwd module
ImportModule ==
    /\ pc = "unloaded"
    /\ expired' = expired
    /\ IF HasPwd(os_name)
       THEN pc' = "idle" /\ exc' = exc
       ELSE pc' = "import_failed" /\ exc' = "ModuleNotFoundError"
    /\ UNCHANGED <<host_vars, call_vars, warnings, results, pw_lookup_done,
                   new_env, child_vars, san_vars, other_vars>>

\* entry of run_commandline: the two warnings and results = {}
RunCommandline ==
    /\ pc = "idle"
    /\ expired' = FALSE
    /\ \E args \in CommandLines, to \in Timeouts, user \in Usernames,
          suppress_missing_timeout_warning \in BOOLEAN :
        /\ commandline_args' = args
        /\ timeout' = to
        /\ username' = user
        /\ warnings' =
             (IF \E i \in 1..Len(args) : ArgStrip(args[i]) = "-"
              THEN {"stdin_not_supported"} ELSE {})
             \cup
             (IF to = None /\ ~suppress_missing_timeout_warning
              THEN {"missing_timeout"} ELSE {})
    /\ results' = NoResults
    /\ pc' = "check_user"
    /\ UNCHANGED <<host_vars, exc, pw_lookup_done, new_env, child_vars, san_vars, other_vars>>

\* variant: the test of os.name is missing
CheckUserWithoutPlatformTest ==
    /\ pc = "check_user"
    /\ expired' = expired
    /\ pc' = IF Truthy(username) THEN "getpwnam" ELSE "popen"
    /\ UNCHANGED <<host_vars, call_vars, warnings, results, exc, pw_lookup_done,
                   new_env, child_vars, san_vars, other_vars>>

\* "if username:" and the test of os.name
CheckUser ==
    /\ pc = "check_user"
    /\ expired' = expired
    /\ IF Truthy(username)
       THEN IF os_name # "posix"
            THEN pc' = "raised" /\ exc' = "UsageError"
            ELSE pc' = "getpwnam" /\ exc' = exc
       ELSE pc' = "popen" /\ exc' = exc
    /\ UNCHANGED <<host_vars, call_vars, warnings, results, pw_lookup_done,
                   new_env, child_vars, san_vars, other_vars>>

\* pwd.getpwnam(username) and the construction of new_env
LookupUser ==
    /\ pc = "getpwnam"
    /\ expired' = expired
    /\ pw_lookup_done' = TRUE
    /\ IF Get(username) \in DOMAIN PasswdDb
       THEN LET pw_record == PasswdDb[Get(username)]
            IN  /\ new_env' = Some(NewEnv(environ, pw_record.pw_dir,
                                          Get(username), cwd))
                /\ environ' = environ
                /\ pc' = "popen"
                /\ exc' = exc
       ELSE /\ pc' = "raised"
            /\ exc' = "KeyError"
            /\ UNCHANGED <<new_env, environ>>
    /\ UNCHANGED <<os_name, caller_ids, cwd, pipe_encoding, call_vars, warnings,
                   results, child_vars, san_vars, other_vars>>

\* subprocess.run starts the child: fork, which may fail
Fork ==
    /\ pc = "popen"
    /\ expired' = expired
    /\ \/ /\ pc' = "raised"
          /\ exc' = "OSError"
          /\ UNCHANGED child_vars
       \/ /\ pc' = "popen_wait"
          /\ exc' = exc
          /\ child' = "preexec"
          /\ child_trace' = <<"fork">>
          /\ child_ids' = Some(caller_ids)
          /\ child_env' = IF new_env # None THEN new_env ELSE Some(environ)
          /\ preexec_todo' =
               IF new_env # None
               THEN LET pw_record == PasswdDb[Get(username)]
                    IN  get_inner_function_object_setting_uid_and_gid(
                            pw_record.pw_uid, pw_record.pw_gid)
               ELSE <<>>
          /\ UNCHANGED <<child_exit, child_error>>
    /\ UNCHANGED <<host_vars, call_vars, warnings, results, pw_lookup_done,
                   new_env, san_vars, other_vars>>

\* the child runs the next call of preexec_fn
ChildPreexec ==
    /\ child = "preexec"
    /\ expired' = expired
    /\ preexec_todo # <<>>
    /\ LET c == Head(preexec_todo)
       IN  /\ child_trace' = Append(child_trace, c.call)
           /\ IF MaySetId(Get(child_ids), c.field, c.id)
              THEN /\ child_ids' = Some([Get(child_ids) EXCEPT ![c.field] = c.id])
                   /\ preexec_todo' = Tail(preexec_todo)
                   /\ UNCHANGED <<child, child_error>>
              ELSE /\ child' = "zombie"
                   /\ child_error' = "SubprocessError"
                   /\ UNCHANGED <<child_ids, preexec_todo>>
    /\ UNCHANGED <<host_vars, pc, call_vars, warnings, results, exc,
                   pw_lookup_done, new_env, child_env, child_exit, san_vars, other_vars>>

\* the child execs the program
ChildExec ==
    /\ child = "preexec"
    /\ expired' = expired
    /\ preexec_todo = <<>>
    /\ child_trace' = Append(child_trace, "exec")
    /\ IF commandline_args[1] \in InstalledPrograms
       THEN child' = "running" /\ child_error' = child_error
       ELSE child' = "zombie" /\ child_error' = "FileNotFoundError"
    /\ UNCHANGED <<host_vars, pc, call_vars, warnings, results, exc,
                   pw_lookup_done, new_env, preexec_todo, child_ids, child_env,
                   child_exit, san_vars, other_vars>>

\* the child ends on its own with an exit code and what it wrote
ChildExit ==
    /\ child = "running"
    /\ expired' = expired
    /\ \E code \in 0..MaxExitCode, out \in Outputs, err \in Outputs :
         child_exit' = Some([code |-> code, stdout |-> out, stderr |-> err])
    /\ child' = "zombie"
    /\ UNCHANGED <<host_vars, pc, call_vars, warnings, results, exc,
                   pw_lookup_done, new_env, preexec_todo, child_trace,
                   child_ids, child_env, child_error, san_vars, other_vars>>

\* Popen returns once the child has exec'ed
PopenReturn ==
    /\ pc = "popen_wait"
    /\ expired' = expired
    /\ child \in {"running", "zombie"}
    /\ child_error = ""
    /\ pc' = "communicate"
    /\ UNCHANGED <<host_vars, call_vars, warnings, results, exc,
                   pw_lookup_done, new_env, child_vars, san_vars, other_vars>>

\* variant: a failure to start the child is stored as a failed process
PopenFailStoredAsFailed ==
    /\ pc = "popen_wait"
    /\ child_error # ""
    /\ expired' = expired
    /\ child' = "reaped"
    /\ results' = (KEY_FAILED_PROCESS :> [cmd |-> commandline_args]) @@ results
    /\ pc' = "returned"
    /\ UNCHANGED <<host_vars, call_vars, warnings, exc, pw_lookup_done,
                   new_env, preexec_todo, child_trace, child_ids, child_env,
                   child_exit, child_error, san_vars, other_vars>>

\* Popen raises when the child failed before or at exec; the child is reaped
PopenFail ==
    /\ pc = "popen_wait"
    /\ expired' = expired
    /\ child_error # ""
    /\ child' = "reaped"
    /\ exc' = child_error
    /\ pc' = "raised"
    /\ UNCHANGED <<host_vars, call_vars, warnings, results, pw_lookup_done,
                   new_env, preexec_todo, child_trace, child_ids, child_env,
                   child_exit, child_error, san_vars, other_vars>>

\* subprocess.run(check=True, ...) completes: the child is reaped, its output
\* decoded, and run_commandline stores the outcome and returns
RunCompletes ==
    /\ pc = "communicate"
    /\ expired' = expired
    /\ child = "zombie"
    /\ child' = "reaped"
    /\ LET ended == Get(child_exit)
           out == Decode(ended.stdout, pipe_encoding)
           err == Decode(ended.stderr, pipe_encoding)
       IN  IF out = None \/ err = None
           THEN /\ pc' = "raised"
                /\ exc' = "TypeError"
                /\ results' = results
           ELSE /\ pc' = "returned"
                /\ exc' = exc
                /\ results' = CompletedOutcome(results, commandline_args,
                                                ended.code, Get(out), Get(err))
    /\ UNCHANGED <<host_vars, call_vars, warnings, pw_lookup_done, new_env,
                   preexec_todo, child_trace, child_ids, child_env, child_exit,
                   child_error, san_vars, other_vars>>

\* the timeout expires while the child is still running
TimeoutExpires ==
    /\ pc = "communicate"
    /\ timeout # None
    /\ child = "running"
    /\ pc' = "timeout_expired"
    /\ expired' = TRUE
    /\ UNCHANGED <<host_vars, call_vars, warnings, results, exc,
                   pw_lookup_done, new_env, child_vars, san_vars, other_vars>>

\* variant: the timeout is caught but the child is not killed
KillChildSkipped ==
    /\ pc = "timeout_expired"
    /\ expired' = expired
    /\ pc' = "kill_sent"
    /\ UNCHANGED <<host_vars, call_vars, warnings, results, exc,
                   pw_lookup_done, new_env, child_vars, san_vars, other_vars>>

\* subprocess.run kills the child after the timeout
KillChild ==
    /\ pc = "timeout_expired"
    /\ expired' = expired
    /\ pc' = "kill_sent"
    /\ IF child = "running"
       THEN /\ child' = "zombie"
            /\ child_exit' = Some([code |-> 0 - 9, stdout |-> <<>>, stderr |-> <<>>])
       ELSE UNCHANGED <<child, child_exit>>
    /\ UNCHANGED <<host_vars, call_vars, warnings, results, exc,
                   pw_lookup_done, new_env, preexec_todo, child_trace,
                   child_ids, child_env, child_error, san_vars, other_vars>>

\* subprocess.run waits for the killed child and re-raises TimeoutExpired,
\* which run_commandline stores as the outcome
WaitKilled ==
    /\ pc = "kill_sent"
    /\ expired' = expired
    /\ child = "zombie"
    /\ child' = "reaped"
    /\ results' = TimeoutOutcome(results, commandline_args, timeout)
    /\ pc' = "returned"
    /\ UNCHANGED <<host_vars, call_vars, warnings, exc, pw_lookup_done,
                   new_env, preexec_todo, child_trace, child_ids, child_env,
                   child_exit, child_error, san_vars, other_vars>>

Next ==
    \/ ImportModule
    \/ RunCommandline
    \/ CheckUser
    \/ LookupUser
    \/ Fork
    \/ ChildPreexec
    \/ ChildExec
    \/ ChildExit
    \/ PopenReturn
    \/ PopenFail
    \/ RunCompletes
    \/ TimeoutExpires
    \/ KillChild
    \/ WaitKilled

Spec == Init /\ [][Next]_vars

\* Scheduling: the caller's own steps, the child's steps up to exec, the
\* expiry of a given timeout and the death of a killed child all happen.
\* Nothing makes a running child end on its own.
Fairness ==
    /\ WF_vars(ImportModule)
    /\ WF_vars(CheckUser)
    /\ WF_vars(LookupUser)
    /\ WF_vars(Fork)
    /\ WF_vars(ChildPreexec)
    /\ WF_vars(ChildExec)
    /\ WF_vars(PopenReturn)
    /\ WF_vars(PopenFail)
    /\ WF_vars(RunCompletes)
    /\ WF_vars(TimeoutExpires)
    /\ WF_vars(KillChild)
    /\ WF_vars(WaitKilled)

FairSpec == Spec /\ Fairness

----------------------------------------------------------------------------
(* sanitize_input_string *)

\* characters offered in user strings: an ASCII letter, the letter e-acute,
\* a semicolon, a dot and an asterisk
Chars == {"a", "U+00E9", ";", ".", "*"}

\* ord() of the characters
Ord ==
    ("a" :> 97) @@ ("U+00E9" :> 233) @@ (";" :> 59) @@ ("." :> 46) @@ ("*" :> 42)
    @@ ("/" :> 47) @@ ("d" :> 100) @@ ("f" :> 102) @@ ("k" :> 107)
    @@ ("l" :> 108) @@ ("n" :> 110) @@ ("o" :> 111) @@ ("p" :> 112)
    @@ ("s" :> 115) @@ ("x" :> 120) @@ ("$" :> 36) @@ ("C" :> 67)
    @@ (":" :> 58) @@ ("\\" :> 92) @@ (" " :> 32)

\* the characters matched by \w under re.UNICODE
WordChars ==
    {"a", "U+00E9", "d", "f", "k", "l", "n", "o", "p", "s", "x", "C", "_"}

Encodings == {"utf-8", "ascii"}

\* the character-set arguments offered, as sequences of regex tokens
Whitelists == {<<>>, <<"\\w">>, <<"\\w", "\\.", "\\-", "_">>}

Blacklists == {<<>>, <<";", "&", "#">>, <<"a", ";">>}

UserStrings == SeqsUpTo(Chars, MaxLen)

\* one character encoded with errors='strict': its bytes, or None when the
\* encoding cannot represent it (UnicodeEncodeError)
EncodeChar(c, enc) ==
    IF Ord[c] < 128 THEN Some(<<Ord[c]>>)
    ELSE IF enc = "utf-8"
         THEN Some(<<192 + (Ord[c] \div 64), 128 + (Ord[c] % 64)>>)
         ELSE None

\* str.encode(encoding, errors='strict') raises for a string with a
\* character the encoding cannot represent
EncodeRaises(str, enc) == \E i \in 1..Len(str) : EncodeChar(str[i], enc) = None

\* the character a token of a character class stands for
Literal(token) ==
    IF token = "\\." THEN "."
    ELSE IF token = "\\-" THEN "-"
    ELSE IF token = "\\$" THEN "$"
    ELSE IF token = "\\'" THEN "'"
    ELSE IF token = "\\\\" THEN "\\"
    ELSE IF token = "\\r" THEN "CR"
    ELSE IF token = "\\n" THEN "LF"
    ELSE IF token = "\\/" THEN "/"
    ELSE token

\* whether one token of a character class matches the character
TokenMatches(token, c) ==
    IF token = "\\w" THEN c \in WordChars ELSE Literal(token) = c

\* re: whether a pattern of the form [...]+ or [^...]+ matches the character
ClassMatches(pattern, c) ==
    LET negated == pattern[2] = "^"
        first == IF negated THEN 3 ELSE 2
        hit == \E i \in first..(Len(pattern) - 2) : TokenMatches(pattern[i], c)
    IN  hit # negated

RECURSIVE RunsFrom(_, _, _, _)
\* the maximal runs of matching characters in str[i..], after the open run
RunsFrom(pattern, str, i, run) ==
    LET closed == IF run = <<>> THEN <<>> ELSE <<run>>
    IN  IF i > Len(str) THEN closed
        ELSE IF ClassMatches(pattern, str[i])
             THEN RunsFrom(pattern, str, i + 1, Append(run, str[i]))
             ELSE closed \o RunsFrom(pattern, str, i + 1, <<>>)

\* regex.findall(user_string)
RegexFindall(pattern, str) == RunsFrom(pattern, str, 1, <<>>)

\* regex.search(user_string): the first match, or None
RegexSearch(pattern, str) ==
    IF RegexFindall(pattern, str) = <<>> THEN None
    ELSE Some(Head(RegexFindall(pattern, str)))

\* variant: both patterns are built also from an empty character set
PatternsEmptyNotSkipped(wl, bl) ==
    << <<"[">> \o bl \o <<"]", "+">>, <<"[", "^">> \o wl \o <<"]", "+">> >>

\* the list "patterns" built by sanitize_input_string
Patterns(wl, bl) ==
    (IF bl # <<>> THEN << <<"[">> \o bl \o <<"]", "+">> >> ELSE <<>>)
    \o
    (IF wl # <<>> THEN << <<"[", "^">> \o wl \o <<"]", "+">> >> ELSE <<>>)

\* variant: the whitelist pattern is tried before the blacklist pattern
PatternsWhitelistFirst(wl, bl) ==
    (IF wl # <<>> THEN << <<"[", "^">> \o wl \o <<"]", "+">> >> ELSE <<>>)
    \o
    (IF bl # <<>> THEN << <<"[">> \o bl \o <<"]", "+">> >> ELSE <<>>)

\* variant: the whitelist pattern is built without the negation
PatternsWhitelistNotNegated(wl, bl) ==
    (IF bl # <<>> THEN << <<"[">> \o bl \o <<"]", "+">> >> ELSE <<>>)
    \o
    (IF wl # <<>> THEN << <<"[">> \o wl \o <<"]", "+">> >> ELSE <<>>)

\* the loop over the patterns: the UsageError of the first pattern that
\* matches, or the normal return
FirstMatch(patterns, str) ==
    LET hits == {i \in 1..Len(patterns) : RegexSearch(patterns[i], str) # None}
    IN  IF hits = {} THEN [kind |-> "returns"]
        ELSE LET i == CHOOSE j \in hits : \A k \in hits : j <= k
             IN  [kind |-> "UsageError", argument |-> str,
                  chars |-> RegexFindall(patterns[i], str),
                  pattern |-> patterns[i]]

\* variant of sanitize_input_string: whitelist first
sanitize_whitelist_first(str, enc, wl, bl) ==
    IF EncodeRaises(str, enc) THEN [kind |-> "UnicodeEncodeError"]
    ELSE FirstMatch(PatternsWhitelistFirst(wl, bl), str)

\* variant of sanitize_input_string: whitelist not negated
sanitize_whitelist_not_negated(str, enc, wl, bl) ==
    IF EncodeRaises(str, enc) THEN [kind |-> "UnicodeEncodeError"]
    ELSE FirstMatch(PatternsWhitelistNotNegated(wl, bl), str)

\* sanitize_input_string of sidlogism.python_toolbox.misc_common_tools: what
\* the call does, a normal return or the exception raised
sanitize_input_string(str, enc, wl, bl) ==
    IF EncodeRaises(str, enc) THEN [kind |-> "UnicodeEncodeError"]
    ELSE FirstMatch(Patterns(wl, bl), str)

\* variant of sanitize_input_string: only the encoding is checked
sanitize_encoding_only(str, enc, wl, bl) ==
    IF EncodeRaises(str, enc) THEN [kind |-> "UnicodeEncodeError"]
    ELSE [kind |-> "returns"]

\* sanitize_input_string of impsia.python_toolbox.misc_common_tools
impsia_sanitize_input_string(str, enc, wl, bl) ==
    IF EncodeRaises(str, enc) THEN [kind |-> "UnicodeEncodeError"]
    ELSE FirstMatch(Patterns(wl, bl), str)

\* no call of run_commandline takes part
RunCallOff ==
    /\ caller_ids = [uid |-> 0, gid |-> 0]
    /\ cwd = "/work"
    /\ pipe_encoding = "UTF-8"
    /\ pc = "off"
    /\ commandline_args = <<>>
    /\ timeout = None
    /\ username = None
    /\ warnings = {}
    /\ results = NoResults
    /\ exc = ""
    /\ expired = FALSE
    /\ pw_lookup_done = FALSE
    /\ new_env = None
    /\ preexec_todo = <<>>
    /\ child = "none"
    /\ child_trace = <<>>
    /\ child_ids = None
    /\ child_env = None
    /\ child_exit = None
    /\ child_error = ""

\* ... on a posix host
RunQuiet == os_name = "posix" /\ RunCallOff

RunOff == RunQuiet /\ environ = ("PATH" :> "/bin")

SanInit ==
    /\ RunOff
    /\ EncIdle
    /\ PathIdle
    /\ StripIdle
    /\ san_pc = "ready"
    /\ san_module \in {"sidlogism", "impsia"}
    /\ user_string \in UserStrings
    /\ encoding \in Encodings
    /\ whitelist \in Whitelists
    /\ blacklist \in Blacklists
    /\ san_result = None
    /\ san_result2 = None

\* the call of the module's sanitize_input_string with the arguments drawn
SanitizeCall ==
    IF san_module = "sidlogism"
    THEN sanitize_input_string(user_string, encoding, whitelist, blacklist)
    ELSE impsia_sanitize_input_string(user_string, encoding, whitelist, blacklist)

\* the caller calls sanitize_input_string
Sanitize ==
    /\ san_pc = "ready"
    /\ san_result' = Some(SanitizeCall)
    /\ san_pc' = "called"
    /\ UNCHANGED <<run_vars, san_module, user_string, encoding, whitelist,
                   blacklist, san_result2, other_vars>>

\* the caller calls it again with the same arguments
SanitizeAgain ==
    /\ san_pc = "called"
    /\ san_result2' = Some(SanitizeCall)
    /\ san_pc' = "called_twice"
    /\ UNCHANGED <<run_vars, san_module, user_string, encoding, whitelist,
                   blacklist, san_result, other_vars>>

SanNext == Sanitize \/ SanitizeAgain

SanSpec == SanInit /\ [][SanNext]_vars

----------------------------------------------------------------------------
(* SubprocessRunner.get_pipes_default_encoding_name *)

\* a call of the library that returned v (None, '' or a name)
Returned(v) == [exc |-> "", value |-> v]

\* a call of the library that raised
Raised(e) == [exc |-> e, value |-> None]

\* the stream arguments offered: io.TextIOWrapper objects with and without
\* an encoding, and a stream of another class
Streams ==
    { [is_textio |-> TRUE, encoding |-> Some("cp850")],
      [is_textio |-> TRUE, encoding |-> Some("UTF-8")],
      [is_textio |-> TRUE, encoding |-> None],
      [is_textio |-> FALSE, encoding |-> None] }

\* os.environ of the caller: PYTHONUTF8 set to 1, set to 0, not set
EncEnvirons ==
    { ("PATH" :> "/bin") @@ ("PYTHONUTF8" :> "1"),
      ("PATH" :> "/bin") @@ ("PYTHONUTF8" :> "0") @@ ("PYTHONIOENCODING" :> "latin-1"),
      ("PATH" :> "/bin") }

\* locale.setlocale(locale.LC_ALL, ''): raises locale.Error for a locale the
\* platform does not support
SetlocaleOutcomes == {Returned(Some("C")), Raised("locale.Error")}

\* locale.getpreferredencoding(do_setlocale=False)
PreferredOutcomes ==
    {Returned(Some("ISO-8859-1")), Returned(Some("")), Raised("locale.Error")}

\* locale.getlocale()[1]; getlocale raises ValueError for a locale name it
\* cannot parse
GetlocaleOutcomes ==
    {Returned(Some("ISO8859-15")), Returned(None), Raised("locale.Error"),
     Raised("IndexError"), Raised("ValueError")}

\* sys.getfilesystemencoding()
FilesystemOutcomes == {Returned(Some("utf-8")), Returned(Some("")), Raised("OSError")}

LastResorts == {"UTF-8", "latin-1"}

\* Python == between a str and the int 1: objects of different types are
\* never equal
StrEqualsInt(str, int) == FALSE

\* truth value of an Optional[str]
EncodingTruthy(enc) == enc # None /\ Get(enc) # ""

\* "try: encoding = probe() except <caught>: pass": the new value of the
\* variable encoding, or the exception that is not caught
TryProbe(current, outcome, caught) ==
    IF outcome.exc = "" THEN Returned(outcome.value)
    ELSE IF outcome.exc \in caught THEN Returned(current)
    ELSE Raised(outcome.exc)

\* get_pipes_default_encoding_name: the name returned or the exception raised
get_pipes_default_encoding_name(strm, last_resort, env, host) ==
    IF strm.is_textio /\ strm.encoding # None
    THEN [kind |-> "returns", value |-> Get(strm.encoding), step |-> "stream"]
    ELSE IF "PYTHONUTF8" \in DOMAIN env /\ StrEqualsInt(env["PYTHONUTF8"], 1)
    THEN [kind |-> "returns", value |-> "UTF-8", step |-> "utf8_mode"]
    ELSE IF host.setlocale.exc # ""
    THEN [kind |-> "raises", value |-> host.setlocale.exc, step |-> "setlocale"]
    ELSE
    LET e1 == TryProbe(Some(""), host.getpreferredencoding, {"locale.Error"})
    IN  IF e1.exc # ""
        THEN [kind |-> "raises", value |-> e1.exc, step |-> "getpreferredencoding"]
        ELSE IF EncodingTruthy(e1.value)
        THEN [kind |-> "returns", value |-> Get(e1.value),
              step |-> "getpreferredencoding"]
        ELSE
    LET e2 == TryProbe(e1.value, host.getlocale, {"locale.Error", "IndexError"})
    IN  IF e2.exc # ""
        THEN [kind |-> "raises", value |-> e2.exc, step |-> "getlocale"]
        ELSE IF EncodingTruthy(e2.value)
        THEN [kind |-> "returns", value |-> Get(e2.value), step |-> "getlocale"]
        ELSE
    LET e3 == TryProbe(e2.value, host.getfilesystemencoding, {"OSError"})
    IN  IF e3.exc # ""
        THEN [kind |-> "raises", value |-> e3.exc, step |-> "getfilesystemencoding"]
        ELSE IF EncodingTruthy(e3.value)
        THEN [kind |-> "returns", value |-> Get(e3.value),
              step |-> "getfilesystemencoding"]
        ELSE [kind |-> "returns", value |-> last_resort, step |-> "last_resort"]

EncInit ==
    /\ RunQuiet
    /\ SanIdle
    /\ PathIdle
    /\ StripIdle
    /\ environ \in EncEnvirons
    /\ enc_pc = "ready"
    /\ stream \in Streams
    /\ last_resort_encoding \in LastResorts
    /\ probes \in [setlocale : SetlocaleOutcomes,
                   getpreferredencoding : PreferredOutcomes,
                   getlocale : GetlocaleOutcomes,
                   getfilesystemencoding : FilesystemOutcomes]
    /\ enc_result = None

\* the caller calls get_pipes_default_encoding_name
ResolveEncoding ==
    /\ enc_pc = "ready"
    /\ enc_result' = Some(get_pipes_default_encoding_name(
                            stream, last_resort_encoding, environ, probes))
    /\ enc_pc' = "done"
    /\ UNCHANGED <<run_vars, san_vars, path_vars, strip_vars, stream,
                   last_resort_encoding,
                   probes>>

EncNext == ResolveEncoding

EncSpec == EncInit /\ [][EncNext]_vars

----------------------------------------------------------------------------
(* The file system that sanitize_userinput_path consults *)

\* the path of an entry of the directory /d
Under(name) == <<"/", "d", "/">> \o name

\* os.getcwd() of the caller
WorkingDirectory == << <<"d">> >>

Directory == [type |-> "dir", target |-> <<>>]
RegularFile == [type |-> "file", target |-> <<>>]
Fifo == [type |-> "fifo", target |-> <<>>]
Symlink(target) == [type |-> "symlink", target |-> target]

\* the entries by their canonical path: a regular file f, a symlink l to it
\* (relative target), a symlink k to the directory, a dangling symlink x, a
\* symlink o to itself, a FIFO p, a file whose name has a shell character and
\* a symlink s to it, a file with a non-ASCII name
FileSystem ==
    (<<"/">> :> Directory) @@ (<<"/", "d">> :> Directory)
    @@ (Under(<<"f">>) :> RegularFile)
    @@ (Under(<<"l">>) :> Symlink(<<"f">>))
    @@ (Under(<<"k">>) :> Symlink(<<"/", "d">>))
    @@ (Under(<<"x">>) :> Symlink(Under(<<"n">>)))
    @@ (Under(<<"o">>) :> Symlink(<<"o">>))
    @@ (Under(<<"p">>) :> Fifo)
    @@ (Under(<<"$">>) :> RegularFile)
    @@ (Under(<<"s">>) :> Symlink(<<"$">>))
    @@ (Under(<<"U+00E9">>) :> RegularFile)

\* the permission bits the caller has on the files that are not
\* directories: none, each one alone, all
FileModes == {{}, {"R"}, {"W"}, {"X"}, {"R", "W", "X"}}

IsAbs(p) == p # <<>> /\ p[1] = "/"

RECURSIVE SplitFrom(_, _, _)
\* p[i..] split at the separators, after the open component
SplitFrom(p, i, comp) ==
    IF i > Len(p) THEN <<comp>>
    ELSE IF p[i] = "/" THEN <<comp>> \o SplitFrom(p, i + 1, <<>>)
    ELSE SplitFrom(p, i + 1, Append(comp, p[i]))

\* the components of a path that name something: not empty and not "."
Components(p) ==
    SelectSeq(SplitFrom(p, 1, <<>>), LAMBDA c : c # <<>> /\ c # <<".">>)

RECURSIVE Joined(_)
Joined(comps) ==
    IF comps = <<>> THEN <<>>
    ELSE <<"/">> \o Head(comps) \o Joined(Tail(comps))

\* the absolute path with these components
AbsPath(comps) == IF comps = <<>> THEN <<"/">> ELSE Joined(comps)

\* where the resolution of a path starts
Start(p) == IF IsAbs(p) THEN <<>> ELSE WorkingDirectory

Parent(comps) == IF comps = <<>> THEN comps ELSE SubSeq(comps, 1, Len(comps) - 1)

RECURSIVE Resolve(_, _, _, _)
\* the walk over the components todo from the directory cur, following at
\* most links symbolic links.  how = "stat" is the kernel's walk (a missing
\* component, a component under a non-directory and too many links fail);
\* "strict" and "lenient" are the walks of os.path.realpath, which pops ".."
\* lexically and, when lenient, keeps what it cannot resolve as it is written
Resolve(todo, cur, links, how) ==
    IF todo = <<>> THEN [ok |-> TRUE, at |-> cur]
    ELSE
    LET c == Head(todo)
        rest == Tail(todo)
        next == Append(cur, c)
        key == AbsPath(next)
        failed == [ok |-> FALSE, at |-> next]
    IN  IF c = <<".", ".">> THEN Resolve(rest, Parent(cur), links, how)
        ELSE IF key \notin DOMAIN FileSystem
        THEN IF how = "lenient" THEN Resolve(rest, next, links, how) ELSE failed
        ELSE IF FileSystem[key].type = "symlink"
        THEN IF links = 0
             THEN IF how = "lenient" THEN [ok |-> TRUE, at |-> next \o rest]
                  ELSE failed
             ELSE Resolve(Components(FileSystem[key].target) \o rest,
                          IF IsAbs(FileSystem[key].target) THEN <<>> ELSE cur,
                          links - 1, how)
        ELSE IF how = "stat" /\ rest # <<>> /\ FileSystem[key].type # "dir"
        THEN failed
        ELSE Resolve(rest, next, links, how)

\* os.stat(path): the entry the path leads to, links followed, or None
Stat(p) ==
    IF p = <<>> THEN None
    ELSE LET r == Resolve(Components(p), Start(p), MaxLinks, "stat")
         IN  IF ~r.ok THEN None
             ELSE IF p[Len(p)] = "/" /\ FileSystem[AbsPath(r.at)].type # "dir"
             THEN None
             ELSE Some(FileSystem[AbsPath(r.at)])

\* os.lstat(path): as os.stat, but a symlink in the last component is not
\* followed
Lstat(p) ==
    LET comps == Components(p)
        last == comps[Len(comps)]
        dir == Resolve(Parent(comps), Start(p), MaxLinks, "stat")
        key == AbsPath(Append(dir.at, last))
    IN  IF comps = <<>> \/ last = <<".", ".">> \/ p[Len(p)] = "/" THEN Stat(p)
        ELSE IF ~dir.ok \/ FileSystem[AbsPath(dir.at)].type # "dir" THEN None
        ELSE IF key \in DOMAIN FileSystem THEN Some(FileSystem[key])
        ELSE None

\* the path of the tree that a path names on the host: on nt the tree is the
\* drive C:, both separators separate, and a path with the drive but without
\* a root starts at the current directory of the drive
HostPath(p, os) ==
    IF os # "nt" THEN p
    ELSE LET drive == IF Len(p) >= 2 /\ p[2] = ":" THEN 2 ELSE 0
             rest == [i \in 1..(Len(p) - drive) |->
                         IF p[i + drive] = "\\" THEN "/" ELSE p[i + drive]]
         IN  IF drive = 2 /\ rest = <<>> THEN <<".">> ELSE rest

\* an absolute path of the tree as the host writes it
NativePath(p, os) ==
    IF os # "nt" THEN p
    ELSE <<"C", ":">> \o [i \in 1..Len(p) |-> IF p[i] = "/" THEN "\\" ELSE p[i]]

\* variant: os.path.lexists, which does not follow a symlink in the last
\* component
os_path_lexists(p, os) == Lstat(HostPath(p, os)) # None

\* os.path.exists(path)
os_path_exists(p, os) == Stat(HostPath(p, os)) # None

os_path_islink(p, os) ==
    Lstat(HostPath(p, os)) # None /\ Get(Lstat(HostPath(p, os))).type = "symlink"

os_path_isdir(p, os) ==
    Stat(HostPath(p, os)) # None /\ Get(Stat(HostPath(p, os))).type = "dir"

os_path_isfile(p, os) ==
    Stat(HostPath(p, os)) # None /\ Get(Stat(HostPath(p, os))).type = "file"

\* os.access(path, mode): the caller may do everything with the directories
\* and has the bits of mode on the other files
os_access(p, bit, os, mode) ==
    /\ Stat(HostPath(p, os)) # None
    /\ (Get(Stat(HostPath(p, os))).type = "dir" \/ bit \in mode)

\* os.path.realpath(path, strict=strict): the canonical absolute path, or
\* the OSError of the strict call
os_path_realpath(p, os, strict) ==
    LET r == Resolve(Components(HostPath(p, os)), Start(HostPath(p, os)),
                     MaxLinks, IF strict THEN "strict" ELSE "lenient")
    IN  IF r.ok THEN Returned(NativePath(AbsPath(r.at), os))
        ELSE Raised("OSError")

----------------------------------------------------------------------------
(* sanitize_userinput_path *)

TypeFlags == {"mustbe_file", "maybe_file", "mustbe_directory", "maybe_directory",
              "mustbe_symlink", "maybe_symlink"}

PermissionFlags == {"mustbe_readable", "maybe_readable", "mustbe_writable",
                    "maybe_writable", "mustbe_executable", "maybe_executable"}

FlagNames == TypeFlags \cup PermissionFlags

\* the keyword arguments when the caller passes none
DefaultFlags == [n \in FlagNames |-> FALSE]

\* os.sep, os.altsep, os.extsep and os.linesep as tokens appended to the
\* character classes; on nt the backslash of os.sep escapes os.altsep
SeparatorTokens(os) == IF os = "nt" THEN <<"\\/">> ELSE <<"/">>

LinesepTokens(os) == IF os = "nt" THEN <<"CR", "LF">> ELSE <<"LF">>

\* variant: the whitelist without the space
PathWhitelistWithoutSpace(os) ==
    <<"\\w", "\\.", "\\-", "_">> \o <<".">> \o <<"/", "\\\\">>
    \o SeparatorTokens(os) \o <<"~", ":">>

\* the whitelist built by sanitize_userinput_path
PathWhitelist(os) ==
    <<"\\w", "\\.", " ", "\\-", "_">> \o <<".">> \o <<"/", "\\\\">>
    \o SeparatorTokens(os) \o <<"~", ":">>

\* the blacklist built by sanitize_userinput_path
PathBlacklist(os) ==
    <<";", "&", "\\'", "\"", "#", "!", "\\$", "%", "\\r", "\\n">>
    \o LinesepTokens(os)

\* the flags after "if mustbe_X: maybe_X = True"
Normalized(fl) ==
    [n \in FlagNames |->
        IF n = "maybe_file" THEN fl.maybe_file \/ fl.mustbe_file
        ELSE IF n = "maybe_directory" THEN fl.maybe_directory \/ fl.mustbe_directory
        ELSE IF n = "maybe_symlink" THEN fl.maybe_symlink \/ fl.mustbe_symlink
        ELSE IF n = "maybe_readable" THEN fl.maybe_readable \/ fl.mustbe_readable
        ELSE IF n = "maybe_writable" THEN fl.maybe_writable \/ fl.mustbe_writable
        ELSE IF n = "maybe_executable" THEN fl.maybe_executable \/ fl.mustbe_executable
        ELSE fl[n]]

\* variant: only the block of mustbe_file tests for a second category
SeveralCategoriesFileOnly(fl) ==
    fl.mustbe_file /\ (fl.mustbe_symlink \/ fl.mustbe_directory)

\* the first three "if mustbe_X" blocks: one of them raises
SeveralCategories(fl) ==
    \/ fl.mustbe_file /\ (fl.mustbe_symlink \/ fl.mustbe_directory)
    \/ fl.mustbe_directory /\ (fl.mustbe_symlink \/ fl.mustbe_file)
    \/ fl.mustbe_symlink /\ (fl.mustbe_directory \/ fl.mustbe_file)

\* variant: the test reads the maybe-flags of the permissions
NoCategoryFromPermissions(fl) ==
    ~Normalized(fl).maybe_readable /\ ~Normalized(fl).maybe_writable
    /\ ~Normalized(fl).maybe_executable

\* "if not maybe_symlink and not maybe_directory and not maybe_file"
NoCategory(fl) ==
    ~Normalized(fl).maybe_symlink /\ ~Normalized(fl).maybe_directory
    /\ ~Normalized(fl).maybe_file

\* the outcomes of sanitize_userinput_path: the path returned, or the
\* exception with the rule its message names and the path its message shows
\* (None when the message shows no path); ops are the calls of os and
\* os.path made, in order
PathReturned(p, ops) ==
    [kind |-> "returns", rule |-> "", value |-> Some(p), shown |-> None,
     ops |-> ops, pattern |-> <<>>]

PathRaised(kind, rule, shown, ops) ==
    [kind |-> kind, rule |-> rule, value |-> None, shown |-> shown, ops |-> ops,
     pattern |-> <<>>]

\* the UsageError of sanitize_input_string, which passes through; pattern is
\* the pattern its message names
PathInvalidChars(lexical, p) ==
    [kind |-> "UsageError", rule |-> "invalid chars", value |-> None,
     shown |-> Some(p), ops |-> <<>>, pattern |-> lexical.pattern]

\* the letters of 'abc...xyzABC...XYZ' among the characters modelled
AsciiLetters == {"a", "d", "f", "k", "l", "n", "o", "p", "s", "x", "C"}

\* the bare drive letter of Windows gets os.sep appended
WithDriveRoot(p, fl, os) ==
    IF fl.mustbe_directory /\ os = "nt" /\ Len(p) = 2 /\ p[Len(p)] = ":"
       /\ p[1] \in AsciiLetters
    THEN p \o <<"\\">>
    ELSE p

\* one call of os or os.path on the path
Probe(op, p, os, mode) ==
    IF op = "islink" THEN os_path_islink(p, os)
    ELSE IF op = "isdir" THEN os_path_isdir(p, os)
    ELSE IF op = "isfile" THEN os_path_isfile(p, os)
    ELSE IF op = "access_R" THEN os_access(p, "R", os, mode)
    ELSE IF op = "access_W" THEN os_access(p, "W", os, mode)
    ELSE os_access(p, "X", os, mode)

\* "if <on> and [not] <op>(path): raise UsageError(<rule>)"; the call is
\* made only when the flag lets the condition reach it
Check(on, op, bad, rule) == [on |-> on, op |-> op, bad |-> bad, rule |-> rule]

\* variant: only the mustbe-flags of the permissions are checked
PermissionChecksMustOnly(fl) ==
    << Check(fl.mustbe_readable, "access_R", FALSE, "must be readable"),
       Check(fl.mustbe_writable, "access_W", FALSE, "must be writable"),
       Check(fl.mustbe_executable, "access_X", FALSE, "must be executable") >>

\* the checks of the access permissions
PermissionChecks(fl) ==
    << Check(fl.mustbe_readable, "access_R", FALSE, "must be readable"),
       Check(~fl.maybe_readable, "access_R", TRUE, "may NOT be readable"),
       Check(fl.mustbe_writable, "access_W", FALSE, "must be writable"),
       Check(~fl.maybe_writable, "access_W", TRUE, "may NOT be writable"),
       Check(fl.mustbe_executable, "access_X", FALSE, "must be executable"),
       Check(~fl.maybe_executable, "access_X", TRUE, "may NOT be executable") >>

\* variant: only the mustbe-flags of the categories are checked
TypeChecksMustOnly(fl) ==
    << Check(fl.mustbe_symlink, "islink", FALSE, "must be symlink"),
       Check(fl.mustbe_directory, "isdir", FALSE, "must be directory"),
       Check(fl.mustbe_file, "isfile", FALSE, "must be file") >>

\* variant: the "may NOT be" checks are made also with mustbe_symlink
TypeChecksNeverSkipped(fl) ==
    << Check(fl.mustbe_symlink, "islink", FALSE, "must be symlink"),
       Check(~fl.maybe_symlink, "islink", TRUE, "may NOT be symlink"),
       Check(fl.mustbe_directory, "isdir", FALSE, "must be directory"),
       Check(~fl.maybe_directory, "isdir", TRUE, "may NOT be directory"),
       Check(fl.mustbe_file, "isfile", FALSE, "must be file"),
       Check(~fl.maybe_file, "isfile", TRUE, "may NOT be file") >>

\* variant: the checks of the file are made before those of the directory
TypeChecksFileFirst(fl) ==
    << Check(fl.mustbe_symlink, "islink", FALSE, "must be symlink"),
       Check(~fl.maybe_symlink, "islink", TRUE, "may NOT be symlink"),
       Check(fl.mustbe_file, "isfile", FALSE, "must be file"),
       Check(~fl.mustbe_symlink /\ ~fl.maybe_file, "isfile", TRUE,
             "may NOT be file"),
       Check(fl.mustbe_directory, "isdir", FALSE, "must be directory"),
       Check(~fl.mustbe_symlink /\ ~fl.maybe_directory, "isdir", TRUE,
             "may NOT be directory") >>

\* the checks of the category, sidlogism version: with mustbe_symlink the
\* "may NOT be" checks of directory and file are skipped
TypeChecks(fl) ==
    << Check(fl.mustbe_symlink, "islink", FALSE, "must be symlink"),
       Check(~fl.maybe_symlink, "islink", TRUE, "may NOT be symlink"),
       Check(fl.mustbe_directory, "isdir", FALSE, "must be directory"),
       Check(~fl.mustbe_symlink /\ ~fl.maybe_directory, "isdir", TRUE,
             "may NOT be directory"),
       Check(fl.mustbe_file, "isfile", FALSE, "must be file"),
       Check(~fl.mustbe_symlink /\ ~fl.maybe_file, "isfile", TRUE,
             "may NOT be file") >>

\* the checks of the category, impsia version
impsia_TypeChecks(fl) ==
    << Check(fl.mustbe_symlink, "islink", FALSE, "must be symlink"),
       Check(~fl.maybe_symlink, "islink", TRUE, "may NOT be symlink"),
       Check(fl.mustbe_directory, "isdir", FALSE, "must be directory"),
       Check(~fl.maybe_directory, "isdir", TRUE, "may NOT be directory"),
       Check(fl.mustbe_file, "isfile", FALSE, "must be file"),
       Check(~fl.maybe_file, "isfile", TRUE, "may NOT be file") >>

RECURSIVE RunChecks(_, _, _, _, _, _)
\* the checks in order: the first that raises, or the return of the path
RunChecks(checks, p, shown, os, mode, ops) ==
    IF checks = <<>> THEN PathReturned(p, ops)
    ELSE LET c == Head(checks)
         IN  IF ~c.on THEN RunChecks(Tail(checks), p, shown, os, mode, ops)
             ELSE IF Probe(c.op, p, os, mode) = c.bad
             THEN PathRaised("UsageError", c.rule, Some(shown), Append(ops, c.op))
             ELSE RunChecks(Tail(checks), p, shown, os, mode, Append(ops, c.op))

\* sanitize_userinput_path of sidlogism.python_toolbox.misc_common_tools on
\* the host os where the caller has the permissions mode on the files
sanitize_userinput_path(p, enc, fl0, os, mode) ==
    LET fl == Normalized(fl0)
        lexical == sanitize_input_string(p, enc, PathWhitelist(os),
                                         PathBlacklist(os))
        canonical == IF fl.mustbe_symlink THEN Returned(p)
                     ELSE os_path_realpath(p, os, TRUE)
        ops == IF fl.mustbe_symlink THEN <<"exists">>
               ELSE <<"exists", "realpath">>
    IN  IF SeveralCategories(fl0)
        THEN PathRaised("UsageError", "only one category", None, <<>>)
        ELSE IF NoCategory(fl0)
        THEN PathRaised("UsageError", "at least one category", None, <<>>)
        ELSE IF lexical.kind = "UnicodeEncodeError"
        THEN PathRaised("UnicodeEncodeError", "encoding", None, <<>>)
        ELSE IF lexical.kind = "UsageError"
        THEN PathInvalidChars(lexical, p)
        ELSE IF ~os_path_exists(p, os)
        THEN PathRaised("UsageError", "doesn't exist", Some(p), <<"exists">>)
        ELSE IF canonical.exc # ""
        THEN PathRaised("UsageError", "symlink loop", Some(p), ops)
        ELSE RunChecks(TypeChecks(fl) \o PermissionChecks(fl),
                       WithDriveRoot(canonical.value, fl, os), p, os, mode, ops)

\* sanitize_userinput_path of impsia.python_toolbox.misc_common_tools:
\* realpath is called first, not strict and whatever the flags are, and every
\* later step and message uses its result
impsia_sanitize_userinput_path(p, enc, fl0, os, mode) ==
    LET fl == Normalized(fl0)
        lexical == impsia_sanitize_input_string(p, enc, PathWhitelist(os),
                                                PathBlacklist(os))
        canonical == WithDriveRoot(os_path_realpath(p, os, FALSE).value, fl, os)
    IN  IF SeveralCategories(fl0)
        THEN PathRaised("UsageError", "only one category", None, <<>>)
        ELSE IF NoCategory(fl0)
        THEN PathRaised("UsageError", "at least one category", None, <<>>)
        ELSE IF lexical.kind = "UnicodeEncodeError"
        THEN PathRaised("UnicodeEncodeError", "encoding", None, <<>>)
        ELSE IF lexical.kind = "UsageError"
        THEN PathInvalidChars(lexical, p)
        ELSE IF ~os_path_exists(canonical, os)
        THEN PathRaised("UsageError", "doesn't exist", Some(canonical),
                        <<"realpath", "exists">>)
        ELSE RunChecks(impsia_TypeChecks(fl) \o PermissionChecks(fl),
                       canonical, canonical, os, mode, <<"realpath", "exists">>)

\* the hosts, paths and encodings offered: absolute and relative, through
\* symlinks, missing, with a space, with a character outside the whitelist,
\* with a shell character, with a character ascii cannot encode, and the
\* bare drive letter on Windows
PathArguments ==
    ({"posix"}
     \X { Under(<<"f">>), <<"f">>, <<"/", "d">>, Under(<<"l">>), <<"l">>,
          Under(<<"k">>), Under(<<"k", "/", "f">>), Under(<<"x">>),
          Under(<<"n">>), Under(<<"n", " ">>), Under(<<"*">>),
          Under(<<"o">>), Under(<<"p">>), Under(<<"s">>), Under(<<"$">>),
          Under(<<"U+00E9">>) }
     \X {"utf-8"})
    \cup {<<"posix", Under(<<"U+00E9">>), "ascii">>}
    \cup {<<"nt", <<"C", ":">>, "utf-8">>}

PathInit ==
    /\ RunCallOff
    /\ environ = ("PATH" :> "/bin")
    /\ SanIdle
    /\ EncIdle
    /\ StripIdle
    /\ path_pc = "ready"
    /\ path_module \in {"sidlogism", "impsia"}
    /\ file_mode \in FileModes
    /\ \E a \in PathArguments :
          os_name = a[1] /\ path = a[2] /\ path_encoding = a[3]
    /\ flags \in [FlagNames -> BOOLEAN]
    /\ path_result = None
    /\ path_result2 = None

\* the call of the module's sanitize_userinput_path with the flags drawn
ValidateCall(p) ==
    IF path_module = "sidlogism"
    THEN sanitize_userinput_path(p, path_encoding, flags, os_name, file_mode)
    ELSE impsia_sanitize_userinput_path(p, path_encoding, flags, os_name,
                                        file_mode)

\* the caller calls sanitize_userinput_path
ValidatePath ==
    /\ path_pc = "ready"
    /\ path_result' = Some(ValidateCall(path))
    /\ path_pc' = "called"
    /\ UNCHANGED <<run_vars, san_vars, enc_vars, strip_vars, path_module,
                   file_mode, path,
                   path_encoding, flags, path_result2>>

\* the caller passes the path returned to sanitize_userinput_path again,
\* with the same flags
ValidateReturned ==
    /\ path_pc = "called"
    /\ Get(path_result).kind = "returns"
    /\ path_result2' = Some(ValidateCall(Get(Get(path_result).value)))
    /\ path_pc' = "called_twice"
    /\ UNCHANGED <<run_vars, san_vars, enc_vars, strip_vars, path_module,
                   file_mode, path,
                   path_encoding, flags, path_result>>

PathNext == ValidatePath \/ ValidateReturned

PathSpec == PathInit /\ [][PathNext]_vars

----------------------------------------------------------------------------
(* strip_fileextension *)

MaxName == 5

\* the characters of the names offered: a letter, os.extsep, both
\* separators of Windows, the colon of a drive
NameChars == {"a", ".", "/", "\\", ":"}

FileBasenames == SeqsUpTo(NameChars, MaxName)

\* os.sep, os.altsep, os.curdir of the host
os_sep(os) == IF os = "nt" THEN "\\" ELSE "/"

os_curdir == "."

\* str.startswith
StartsWith(str, prefix) ==
    Len(str) >= Len(prefix) /\ SubSeq(str, 1, Len(prefix)) = prefix

\* "c in str"
Contains(str, c) == \E i \in 1..Len(str) : str[i] = c

\* str[n:], n counted from 0
From(str, n) == SubSeq(str, n + 1, Len(str))

\* str.rfind of the last character out of cs, as a position from 1 (0 when
\* there is none)
RFind(str, cs) ==
    LET at == {i \in 1..Len(str) : str[i] \in cs}
    IN  IF at = {} THEN 0 ELSE CHOOSE i \in at : \A j \in at : j <= i

\* str.find(c, start) as a position from 1, the search starting at start
Find(str, c, start) ==
    LET at == {i \in start..Len(str) : str[i] = c}
    IN  IF at = {} THEN 0 ELSE CHOOSE i \in at : \A j \in at : i <= j

\* ntpath.splitdrive (Python 3.11): the length of the drive or UNC share the
\* path starts with
DriveLen(p) ==
    LET normp == [i \in 1..Len(p) |-> IF p[i] = "/" THEN "\\" ELSE p[i]]
        index == Find(normp, "\\", 3)
        index2 == Find(normp, "\\", index + 1)
    IN  IF Len(p) < 2 THEN 0
        ELSE IF normp[1] = "\\" /\ normp[2] = "\\"
        THEN IF index = 0 \/ index2 = 0 THEN Len(p) ELSE index2 - 1
        ELSE IF normp[2] = ":" THEN 2
        ELSE 0

\* os.path.basename: what follows the last separator, on Windows after the
\* drive
os_path_basename(p, os) ==
    LET rest == IF os = "nt" THEN From(p, DriveLen(p)) ELSE p
        seps == IF os = "nt" THEN {"\\", "/"} ELSE {"/"}
    IN  From(rest, RFind(rest, seps))

\* os.path.splitext(p)[0]: the last dot and what follows it are removed,
\* unless only dots precede it in the last component
SplitextRoot(p, os) ==
    LET seps == IF os = "nt" THEN {"\\", "/"} ELSE {"/"}
        sepIndex == RFind(p, seps)
        dotIndex == RFind(p, {"."})
    IN  IF dotIndex > sepIndex
           /\ \E k \in (sepIndex + 1)..(dotIndex - 1) : p[k] # "."
        THEN SubSeq(p, 1, dotIndex - 1)
        ELSE p

\* the name after "strip leading './'"
WithoutLeadingCurdir(name, os) ==
    IF StartsWith(name, <<".", "/">>)
       \/ StartsWith(name, <<os_curdir, os_sep(os)>>)
    THEN From(name, 2)
    ELSE name

\* strip_fileextension of sidlogism.python_toolbox.misc_common_tools
strip_fileextension(name, os) ==
    LET stripped == WithoutLeadingCurdir(name, os)
    IN  IF Contains(stripped, os_sep(os))
        THEN [kind |-> "UsageError", value |-> None]
        ELSE [kind |-> "returns",
              value |-> Some(SplitextRoot(os_path_basename(stripped, os), os))]

\* strip_fileextension of impsia.python_toolbox.misc_common_tools
impsia_strip_fileextension(name, os) ==
    LET stripped == WithoutLeadingCurdir(name, os)
    IN  IF Contains(stripped, os_sep(os))
        THEN [kind |-> "UsageError", value |-> None]
        ELSE [kind |-> "returns",
              value |-> Some(SplitextRoot(os_path_basename(stripped, os), os))]

StripInit ==
    /\ RunCallOff
    /\ os_name \in {"posix", "nt"}
    /\ environ = ("PATH" :> "/bin")
    /\ SanIdle
    /\ EncIdle
    /\ PathIdle
    /\ strip_pc = "ready"
    /\ strip_module \in {"sidlogism", "impsia"}
    /\ file_basename \in FileBasenames
    /\ strip_result = None

\* the caller calls strip_fileextension
StripFileextension ==
    /\ strip_pc = "ready"
    /\ strip_result' =
          Some(IF strip_module = "sidlogism"
               THEN strip_fileextension(file_basename, os_name)
               ELSE impsia_strip_fileextension(file_basename, os_name))
    /\ strip_pc' = "called"
    /\ UNCHANGED <<run_vars, san_vars, enc_vars, path_vars, strip_module,
                   file_basename>>

StripNext == StripFileextension

StripSpec == StripInit /\ [][StripNext]_vars

----------------------------------------------------------------------------
(* Properties of run_commandline *)

UserGiven == Truthy(username)

\* the run reached the end of subprocess.run with a child that ended on its
\* own before any timeout expired
EndedInTime ==
    /\ pc \in Done
    /\ ~expired
    /\ child = "reaped"
    /\ child_error = ""
    /\ child_exit # None

IsPrefix(s, t) == Len(s) <= Len(t) /\ \A i \in 1..Len(s) : s[i] = t[i]

\* C1: every call of run_commandline that returns yields a dict holding
\* exactly one of the keys p_success, p_timeout, p_fail and nothing else.
C1_ExactlyOneOutcome ==
    pc = "returned" =>
        /\ DOMAIN results \subseteq OutcomeKeys
        /\ Cardinality(DOMAIN results) = 1

\* C1 witness: returned calls of every kind, here a timeout of a run as
\* another user.
C1_Witness ==
    /\ pc = "returned"
    /\ UserGiven
    /\ KEY_TIMEOUT_PROCESS \in DOMAIN results

\* C2: a child that ends before the timeout is classified by its exit code
\* alone: 0 gives p_success with returncode 0, the args passed in and the
\* captured stdout; nonzero gives p_fail with that exit code, the args passed
\* in as cmd and the captured streams.
C2_ClassifiedByExitCode ==
    EndedInTime =>
        LET ended == Get(child_exit)
            out == Decode(ended.stdout, pipe_encoding)
            err == Decode(ended.stderr, pipe_encoding)
        IN  /\ pc = "returned"
            /\ IF ended.code = 0
               THEN /\ DOMAIN results = {KEY_SUCCESSFUL_PROCESS}
                    /\ results[KEY_SUCCESSFUL_PROCESS].returncode = 0
                    /\ results[KEY_SUCCESSFUL_PROCESS].args = commandline_args
                    /\ out # None =>
                         results[KEY_SUCCESSFUL_PROCESS].stdout = Get(out)
               ELSE /\ DOMAIN results = {KEY_FAILED_PROCESS}
                    /\ results[KEY_FAILED_PROCESS].returncode = ended.code
                    /\ results[KEY_FAILED_PROCESS].cmd = commandline_args
                    /\ out # None =>
                         results[KEY_FAILED_PROCESS].output = Get(out)
                    /\ err # None =>
                         results[KEY_FAILED_PROCESS].stderr = Get(err)

\* C3: when the timeout expires on a child that has not exited, the call
\* returns p_timeout alone, and the record keeps the timeout and the command
\* line passed in.
C3_TimeoutOutcome ==
    (expired /\ pc \in Done) =>
        /\ pc = "returned"
        /\ DOMAIN results = {KEY_TIMEOUT_PROCESS}
        /\ results[KEY_TIMEOUT_PROCESS].timeout = timeout
        /\ results[KEY_TIMEOUT_PROCESS].cmd = commandline_args

\* C3 witness: a call that returned after its timeout expired.
C3_Witness ==
    /\ expired
    /\ pc = "returned"
    /\ timeout # None
    /\ commandline_args = <<"cat", "-">>

\* C4: with a timeout, the wait on the child ends at expiry, the child is
\* killed and reaped and only then the call returns: the call always ends,
\* and no state holds p_timeout together with a running or zombie child.
C4_KilledReapedThenReturned ==
    /\ [](KEY_TIMEOUT_PROCESS \in DOMAIN results => child = "reaped")
    /\ [](pc = "kill_sent" => child \in {"zombie", "reaped"})
    /\ (pc = "communicate" /\ timeout # None) ~> (pc \in Done)

\* C4 witness: p_timeout returned for a child that was killed (exit by
\* signal 9) and reaped.
C4_Witness ==
    /\ pc = "returned"
    /\ KEY_TIMEOUT_PROCESS \in DOMAIN results
    /\ child = "reaped"
    /\ Get(child_exit).code < 0

\* C5: in a run as another user on POSIX the child sets its GID to the
\* user's GID, then its UID to the user's UID, between fork and exec; neither
\* the order setuid-setgid nor an exec before either call is reachable.
C5_GidThenUidBeforeExec ==
    (UserGiven /\ child # "none") =>
        LET pw_record == PasswdDb[Get(username)]
        IN  /\ os_name = "posix"
            /\ IsPrefix(child_trace, <<"fork", "setgid", "setuid", "exec">>)
            /\ (Len(child_trace) >= 3 /\ child_error = "") =>
                 Get(child_ids).gid = pw_record.pw_gid
            /\ (Len(child_trace) >= 4) =>
                 Get(child_ids) = [uid |-> pw_record.pw_uid,
                                   gid |-> pw_record.pw_gid]

\* C5 witness: the child of a run as another user has exec'ed.
C5_Witness ==
    /\ UserGiven
    /\ child = "running"
    /\ child_trace = <<"fork", "setgid", "setuid", "exec">>

\* C6: a call with a username on a host whose os.name is not 'posix' raises
\* UsageError before any lookup in the user database and before any child is
\* created, and leaves no outcome.
C6_UsageErrorOffPosix ==
    (UserGiven /\ os_name # "posix" /\ pc \notin {"idle", "check_user"}) =>
        /\ pc = "raised"
        /\ exc = "UsageError"
        /\ ~pw_lookup_done
        /\ child = "none"
        /\ DOMAIN results = {}

\* C6 witness: the UsageError raised on a non-POSIX host.
C6_Witness ==
    /\ UserGiven
    /\ os_name # "posix"
    /\ pc = "raised"
    /\ exc = "UsageError"

\* C7: the environment of a child run as another user equals the caller's
\* environment except at exactly HOME (the user's home directory), LOGNAME
\* and USER (the username) and PWD (the caller's working directory); the
\* caller's own environment never changes.
C7_ChildEnvironment ==
    /\ []((UserGiven /\ child_env # None) =>
            LET env == Get(child_env)
                pw_record == PasswdDb[Get(username)]
                rewritten == {"HOME", "LOGNAME", "USER", "PWD"}
            IN  /\ DOMAIN env = DOMAIN environ \cup rewritten
                /\ \A k \in DOMAIN env \ rewritten : env[k] = environ[k]
                /\ env["HOME"] = pw_record.pw_dir
                /\ env["LOGNAME"] = Get(username)
                /\ env["USER"] = Get(username)
                /\ env["PWD"] = cwd)
    /\ [][environ' = environ]_vars

\* C7 witness: a child run as another user by a caller whose environment has
\* no PWD and whose HOME differs from the user's.
C7_Witness ==
    /\ UserGiven
    /\ child_env # None
    /\ "PWD" \notin DOMAIN environ
    /\ Get(child_env)["PWD"] = cwd
    /\ Get(child_env)["HOME"] # environ["HOME"]

\* a failure to start the child: unknown user, fork failure, failure of
\* setgid/setuid, program not found
StartFailed ==
    \/ pw_lookup_done /\ Get(username) \notin DOMAIN PasswdDb
    \/ exc = "OSError"
    \/ child_error # ""

\* C8: a failure to start the child is never stored as p_fail, p_success or
\* p_timeout: the call leaves no outcome dict and the error reaches the caller
\* as an exception of its own kind.
C8_StartFailurePropagates ==
    StartFailed =>
        /\ DOMAIN results = {}
        /\ pc # "returned"
        /\ pc = "raised" =>
             exc \in {"KeyError", "OSError", "SubprocessError", "FileNotFoundError"}
        /\ (pc = "raised" /\ child_error # "") => exc = child_error

\* C8 witness: the failed setuid of an unprivileged caller has reached the
\* caller as SubprocessError.
C8_Witness ==
    /\ pc = "raised"
    /\ exc = "SubprocessError"
    /\ child_trace = <<"fork", "setgid", "setuid">>

----------------------------------------------------------------------------
(* Properties of sanitize_input_string *)

\* the characters a character-set argument names
Named(set, c) == \E i \in 1..Len(set) : TokenMatches(set[i], c)

HasBlacklisted == \E i \in 1..Len(user_string) : Named(blacklist, user_string[i])

AllWhitelisted == \A i \in 1..Len(user_string) : Named(whitelist, user_string[i])

Encodable == \A i \in 1..Len(user_string) : EncodeChar(user_string[i], encoding) # None

BlacklistPattern == <<"[">> \o blacklist \o <<"]", "+">>

\* C9 as stated: every string with a blacklisted character fails with the
\* forbidden-character error that names the blacklist pattern.
C9_AsStated ==
    (san_pc # "ready" /\ HasBlacklisted) =>
        /\ Get(san_result).kind = "UsageError"
        /\ Get(san_result).pattern = BlacklistPattern

\* C9 amended: every string that the given encoding can represent and that
\* has a blacklisted character fails with the forbidden-character error that
\* names the blacklist pattern, never the whitelist pattern, whatever its
\* other characters are.
C9_BlacklistWins ==
    (san_pc # "ready" /\ HasBlacklisted /\ Encodable) =>
        /\ Get(san_result).kind = "UsageError"
        /\ Get(san_result).pattern = BlacklistPattern
        /\ Get(san_result).pattern[2] # "^"

\* C9 witness: a string with a blacklisted character and a character outside
\* the whitelist was rejected.
C9_Witness ==
    /\ san_pc = "called"
    /\ HasBlacklisted
    /\ whitelist # <<>>
    /\ ~AllWhitelisted
    /\ \E i \in 1..Len(user_string) : ~Named(blacklist, user_string[i])
    /\ Get(san_result).kind = "UsageError"

\* C10 as stated: every string without blacklisted characters and without
\* characters outside the whitelist is accepted, and is accepted again.
C10_AsStated ==
    (san_pc # "ready" /\ ~HasBlacklisted /\ AllWhitelisted) =>
        /\ Get(san_result).kind = "returns"
        /\ san_pc = "called_twice" => san_result2 = san_result

\* C10 amended: every string that the given encoding can represent, without
\* blacklisted characters and without characters outside the whitelist, is
\* accepted, and a second call with the same arguments accepts it again.
C10_ValidAccepted ==
    (san_pc # "ready" /\ ~HasBlacklisted /\ AllWhitelisted /\ Encodable) =>
        /\ Get(san_result).kind = "returns"
        /\ san_pc = "called_twice" => Get(san_result2).kind = "returns"

\* C10 witness: a non-empty valid string under a whitelist and a blacklist
\* was accepted twice.
C10_Witness ==
    /\ san_pc = "called_twice"
    /\ Len(user_string) = MaxLen
    /\ whitelist # <<>>
    /\ blacklist # <<>>
    /\ ~HasBlacklisted
    /\ AllWhitelisted
    /\ Get(san_result2).kind = "returns"

----------------------------------------------------------------------------
(* Properties of get_pipes_default_encoding_name *)

NoStreamEncoding == ~(stream.is_textio /\ stream.encoding # None)

Utf8ModeSet == "PYTHONUTF8" \in DOMAIN environ /\ environ["PYTHONUTF8"] = "1"

\* C19: the precedence is stream encoding, UTF-8 mode, preferred encoding,
\* getlocale, file system encoding, last resort, the first answer winning; in
\* particular without a stream encoding and with PYTHONUTF8 set to 1 the
\* result is 'UTF-8' whatever the later probes answer.
C19_Utf8ModeWins ==
    enc_pc = "done" =>
        /\ ~NoStreamEncoding =>
             Get(enc_result) = [kind |-> "returns", value |-> Get(stream.encoding),
                                step |-> "stream"]
        /\ (NoStreamEncoding /\ Utf8ModeSet) =>
             /\ Get(enc_result).kind = "returns"
             /\ Get(enc_result).value = "UTF-8"

\* some probe gave a non-empty answer
SomeAnswer ==
    \/ ~NoStreamEncoding
    \/ Utf8ModeSet
    \/ EncodingTruthy(probes.getpreferredencoding.value)
    \/ EncodingTruthy(probes.getlocale.value)
    \/ EncodingTruthy(probes.getfilesystemencoding.value)

\* C20: the call never raises and returns a non-empty name; a step that
\* raises or answers nothing falls through to the next, and the last resort
\* is returned exactly when no earlier step gave an answer.
C20_NeverRaises ==
    enc_pc = "done" =>
        /\ Get(enc_result).kind = "returns"
        /\ Get(enc_result).value # ""
        /\ Get(enc_result).step = "last_resort" <=> ~SomeAnswer

----------------------------------------------------------------------------
(* Properties of sanitize_userinput_path *)

\* the first call has been made
PathCalled == path_pc \in {"called", "called_twice"}

\* the categories the caller enforces
Enforced == {n \in {"mustbe_file", "mustbe_directory", "mustbe_symlink"} : flags[n]}

\* the categories the caller allows, a mustbe-flag allowing its own
AllowedCategories ==
    {x \in {"file", "directory", "symlink"} :
        \/ x = "file" /\ (flags.maybe_file \/ flags.mustbe_file)
        \/ x = "directory" /\ (flags.maybe_directory \/ flags.mustbe_directory)
        \/ x = "symlink" /\ (flags.maybe_symlink \/ flags.mustbe_symlink)}

\* C11: with two or more of mustbe_file, mustbe_directory, mustbe_symlink
\* the call of either version raises the UsageError of the wrong
\* parametrization, for every path, and has called none of exists, realpath,
\* islink, isdir, isfile, access.
C11_ConflictRaisesUntouched ==
    (PathCalled /\ Cardinality(Enforced) >= 2) =>
        Get(path_result) =
            PathRaised("UsageError", "only one category", None, <<>>)

\* mustbe_directory and mustbe_symlink on the existing file, impsia version
C11_Witness ==
    /\ PathCalled
    /\ path_module = "impsia"
    /\ Enforced = {"mustbe_directory", "mustbe_symlink"}
    /\ path = Under(<<"f">>)
    /\ Get(path_result).kind = "UsageError"
    /\ Get(path_result).ops = <<>>

\* C12: when no category is allowed after the mustbe-flags have set their
\* maybe-flags, the call raises the UsageError of the wrong parametrization
\* for every path, before anything else is looked at; the default flags are
\* such a call.
C12_NoCategoryRaises ==
    /\ (PathCalled /\ AllowedCategories = {}) =>
          Get(path_result) =
              PathRaised("UsageError", "at least one category", None, <<>>)
    /\ (PathCalled /\ flags = DefaultFlags) =>
          Get(path_result).kind = "UsageError"

\* maybe_readable alone on the existing file, sidlogism version
C12_Witness ==
    /\ PathCalled
    /\ path_module = "sidlogism"
    /\ AllowedCategories = {}
    /\ flags.maybe_readable
    /\ path = Under(<<"f">>)
    /\ Get(path_result).rule = "at least one category"

\* at most one category enforced and at least one allowed
ValidParametrization == Cardinality(Enforced) <= 1 /\ AllowedCategories # {}

\* the encoding can represent every character of the path
PathEncodable ==
    \A i \in 1..Len(path) : EncodeChar(path[i], path_encoding) # None

\* every character of the path is on the whitelist and none on the blacklist
PathCharsAllowed ==
    LET wl == PathWhitelist(os_name)
        bl == PathBlacklist(os_name)
    IN  \A i \in 1..Len(path) :
            /\ \E j \in 1..Len(wl) : TokenMatches(wl[j], path[i])
            /\ \A j \in 1..Len(bl) : ~TokenMatches(bl[j], path[i])

\* what os.stat and os.lstat answer for the path passed in
PathStat == Stat(HostPath(path, os_name))

PathLstat == Lstat(HostPath(path, os_name))

\* the message of a path that does not exist
NotFound(r) == r.kind = "UsageError" /\ r.rule = "doesn't exist"

ReturnedPath == Get(Get(path_result).value)

FirstReturned == PathCalled /\ Get(path_result).kind = "returns"

\* C14: whenever sanitize_userinput_path without mustbe_symlink returns p,
\* the call on p with the same flags returns p.
C14_ReturnedPathRevalidates ==
    (path_pc = "called_twice" /\ ~flags.mustbe_symlink) =>
        /\ Get(path_result2).kind = "returns"
        /\ Get(path_result2).value = Get(path_result).value

\* whether the caller allows the permission, a mustbe-flag allowing its own
MayBe(bit) ==
    IF bit = "R" THEN flags.maybe_readable \/ flags.mustbe_readable
    ELSE IF bit = "W" THEN flags.maybe_writable \/ flags.mustbe_writable
    ELSE flags.maybe_executable \/ flags.mustbe_executable

MustBe(bit) ==
    IF bit = "R" THEN flags.mustbe_readable
    ELSE IF bit = "W" THEN flags.mustbe_writable
    ELSE flags.mustbe_executable

\* C15: a path p returned by the sidlogism version satisfies every
\* constraint: mustbe_file => p is a regular file, mustbe_directory => p is
\* a directory, mustbe_symlink => p is a symlink, and for each permission X
\* mustbe_X => access(p, X) and access(p, X) => X is allowed.
C15_ReturnedSatisfiesFlags ==
    (FirstReturned /\ path_module = "sidlogism") =>
        /\ flags.mustbe_file => os_path_isfile(ReturnedPath, os_name)
        /\ flags.mustbe_directory => os_path_isdir(ReturnedPath, os_name)
        /\ flags.mustbe_symlink => os_path_islink(ReturnedPath, os_name)
        /\ \A bit \in {"R", "W", "X"} :
              /\ MustBe(bit) => os_access(ReturnedPath, bit, os_name, file_mode)
              /\ os_access(ReturnedPath, bit, os_name, file_mode) => MayBe(bit)

\* a read-only file required to be a readable file, nothing else allowed
C15_Witness ==
    /\ FirstReturned
    /\ path_module = "sidlogism"
    /\ path = <<"f">>
    /\ file_mode = {"R"}
    /\ flags.mustbe_file /\ flags.mustbe_readable
    /\ ~flags.maybe_writable /\ ~flags.maybe_executable
    /\ ReturnedPath = Under(<<"f">>)

\* C16: every failing call raises UsageError and no other exception, its
\* message names the rule violated and, when the failure is one of the path
\* and not of the flags, shows the path, and no path is returned; for every
\* kind of failure.
C16_EveryFailureIsUsageError ==
    (PathCalled /\ path_module = "sidlogism"
     /\ Get(path_result).kind # "returns") =>
        /\ Get(path_result).kind = "UsageError"
        /\ ValidParametrization => Get(path_result).shown # None
        /\ Get(path_result).rule # ""
        /\ Get(path_result).value = None

\* C17: the impsia version, called with mustbe_symlink and the three
\* permissions allowed on a symlink to a regular file the caller may read,
\* write and execute, returns the path of the symlink as it was passed.
C17_SymlinkReturnedAsPassed ==
    (/\ PathCalled
     /\ path_module = "impsia"
     /\ Enforced = {"mustbe_symlink"}
     /\ flags.maybe_readable /\ flags.maybe_writable /\ flags.maybe_executable
     /\ PathEncodable /\ PathCharsAllowed
     /\ PathLstat = Some(Symlink(<<"f">>))
     /\ PathStat = Some(RegularFile)
     /\ file_mode = {"R", "W", "X"})
        => /\ Get(path_result).kind = "returns"
           /\ Get(path_result).value = Some(path)

\* the absolute path whose parent components are resolved and whose last
\* component is kept
CanonicalParent(p) ==
    LET comps == Components(p)
        dir == Resolve(Parent(comps), Start(p), MaxLinks, "stat")
    IN  AbsPath(Append(dir.at, comps[Len(comps)]))

\* C18: the path returned by the sidlogism version with mustbe_symlink is
\* absolute, with its parent components resolved and its last component the
\* symlink itself.
C18_SymlinkPathCanonicalParents ==
    (FirstReturned /\ path_module = "sidlogism" /\ flags.mustbe_symlink) =>
        /\ IsAbs(ReturnedPath)
        /\ ReturnedPath = CanonicalParent(path)

----------------------------------------------------------------------------
(* Further properties of sanitize_input_string *)

SanRejected == Get(san_result).kind = "UsageError"

\* C23: an empty blacklist and an empty whitelist are skipped.  Of the
\* strings the encoding can represent: with both empty every string is
\* accepted; with only the whitelist empty a string is rejected exactly for
\* a blacklisted character; with only the blacklist empty exactly for a
\* character outside the whitelist.
C23_EmptySetSkipped ==
    (san_pc # "ready" /\ Encodable) =>
        /\ (whitelist = <<>> /\ blacklist = <<>>) =>
              Get(san_result).kind = "returns"
        /\ (whitelist = <<>> /\ blacklist # <<>>) =>
              (SanRejected <=> HasBlacklisted)
        /\ (whitelist # <<>> /\ blacklist = <<>>) =>
              (SanRejected <=> ~AllWhitelisted)
        /\ ~SanRejected => Get(san_result).kind = "returns"

\* a string with ';' and '*' accepted with both sets empty
C23_Witness ==
    /\ san_pc = "called"
    /\ whitelist = <<>> /\ blacklist = <<>>
    /\ user_string = <<";", "*">>
    /\ Get(san_result).kind = "returns"

----------------------------------------------------------------------------
(* Properties of strip_fileextension *)

\* the argument without one leading './' (curdir and separator of the host)
NameAfterCurdir ==
    IF StartsWith(file_basename, <<".", "/">>)
       \/ StartsWith(file_basename, <<".", os_sep(os_name)>>)
    THEN From(file_basename, 2)
    ELSE file_basename

\* the name after its leading dots
RECURSIVE AfterLeadingDots(_)
AfterLeadingDots(name) ==
    IF name # <<>> /\ Head(name) = "." THEN AfterLeadingDots(Tail(name))
    ELSE name

\* short is name without its last extension: what is cut off is a dot and
\* the dot-free rest of the name, and nothing is cut off only when the name
\* has no dot after its leading dots
IsWithoutLastExtension(short, name) ==
    LET cut == From(name, Len(short))
    IN  /\ Len(short) <= Len(name)
        /\ short = SubSeq(name, 1, Len(short))
        /\ cut # <<>> => (Head(cut) = "." /\ ~Contains(Tail(cut), "."))
        /\ cut = <<>> => ~Contains(AfterLeadingDots(name), ".")

\* C22: strip_fileextension raises UsageError exactly when the name, after
\* the removal of one leading './', still contains the directory separator;
\* otherwise it returns that name without its last extension, and what it
\* returns never contains the directory separator.
C22_StripContract ==
    strip_pc = "called" =>
        /\ Get(strip_result).kind = "UsageError"
              <=> Contains(NameAfterCurdir, os_sep(os_name))
        /\ Get(strip_result).kind = "returns" =>
              /\ IsWithoutLastExtension(Get(Get(strip_result).value),
                                        NameAfterCurdir)
              /\ ~Contains(Get(Get(strip_result).value), os_sep(os_name))

----------------------------------------------------------------------------
(* Further properties of run_commandline *)

\* the child has exec'ed the command
Executed == \E i \in 1..Len(child_trace) : child_trace[i] = "exec"

\* C30: a command of a call with a username other than None, the empty
\* string included, is never executed under the caller's identity with the
\* caller's environment: its child has switched GID and UID before the exec
\* and runs with the rewritten environment.
C30_NeverRunsAsCaller ==
    (username # None /\ Executed) =>
        /\ IsPrefix(<<"fork", "setgid", "setuid", "exec">>, child_trace)
        /\ child_env # Some(environ)


\* the path passed in names a symbolic link
PathIsSymlink == PathLstat # None /\ Get(PathLstat).type = "symlink"

\* C27: the sidlogism version fails whenever maybe_symlink is false after
\* the normalization of the flags and the path passed in is a symbolic
\* link: no symlink is accepted from a caller who did not allow symlinks.
C27_SymlinkRefusedUnlessAllowed ==
    (PathCalled /\ path_module = "sidlogism" /\ PathIsSymlink
     /\ "symlink" \notin AllowedCategories)
        => Get(path_result).kind # "returns"


\* the category of what the returned path names: a symlink when the path
\* itself is one, otherwise what os.stat finds
ReturnedCategory ==
    IF os_path_islink(ReturnedPath, os_name) THEN "symlink"
    ELSE IF os_path_isfile(ReturnedPath, os_name) THEN "file"
    ELSE IF os_path_isdir(ReturnedPath, os_name) THEN "directory"
    ELSE "other"

\* C29 as stated: the path returned by the sidlogism version is of a
\* category the caller allowed (file, directory or symlink); an existing
\* object that is none of the three is never accepted.
C29_AsStated ==
    (FirstReturned /\ path_module = "sidlogism")
        => ReturnedCategory \in AllowedCategories

\* C29: a path returned by the sidlogism version that is a regular file, a
\* directory or a symlink is of a category the caller allowed; an object
\* that is none of the three is not checked for its category and is
\* returned whenever no category is enforced and the permissions fit.
C29_ReturnedCategoryAllowedOrOther ==
    /\ (FirstReturned /\ path_module = "sidlogism")
          => ReturnedCategory \in AllowedCategories \cup {"other"}
    /\ (PathCalled /\ path_module = "sidlogism" /\ ValidParametrization
        /\ PathEncodable /\ PathCharsAllowed
        /\ PathStat # None /\ Get(PathStat).type = "fifo")
          => (Get(path_result).kind = "returns"
                <=> /\ Enforced = {}
                    /\ \A bit \in {"R", "W", "X"} :
                          /\ MustBe(bit) => bit \in file_mode
                          /\ bit \in file_mode => MayBe(bit))

\* the FIFO is returned to a caller who allowed regular files only
C29_Witness ==
    /\ FirstReturned
    /\ path_module = "sidlogism"
    /\ path = Under(<<"p">>)
    /\ AllowedCategories = {"file"}
    /\ ReturnedCategory = "other"


\* C25: in both versions the character policy is checked on the path as it
\* was passed before the file system is touched: for every path with a
\* blacklisted or a non-whitelisted character the call fails and has called
\* none of exists, realpath, islink, isdir, isfile, access.
C25_CharacterPolicyBeforeFilesystem ==
    (PathCalled /\ ~PathCharsAllowed) =>
        /\ Get(path_result).kind # "returns"
        /\ Get(path_result).ops = <<>>

\* the existing file with a '$' in its name, required to be a file, impsia
\* version
C25_Witness ==
    /\ PathCalled
    /\ path_module = "impsia"
    /\ path = Under(<<"$">>)
    /\ Enforced = {"mustbe_file"}
    /\ Get(path_result).rule = "invalid chars"
    /\ Get(path_result).shown = Some(path)
    /\ Get(path_result).ops = <<>>


\* the permissions the caller has on the path passed in fit the flags
PermissionsFit ==
    \A bit \in {"R", "W", "X"} :
        /\ MustBe(bit) => os_access(path, bit, os_name, file_mode)
        /\ os_access(path, bit, os_name, file_mode) => MayBe(bit)

\* C26: with mustbe_symlink the sidlogism version skips the checks "may NOT
\* be directory" and "may NOT be file": a symlink whose target is a
\* directory or a regular file is accepted whatever maybe_directory and
\* maybe_file are, provided the permission constraints hold, and neither
\* isdir nor isfile is called.
C26_SymlinkTargetCategoryNotChecked ==
    (/\ PathCalled
     /\ path_module = "sidlogism"
     /\ Enforced = {"mustbe_symlink"}
     /\ PathEncodable /\ PathCharsAllowed
     /\ PathIsSymlink
     /\ PathStat # None /\ Get(PathStat).type \in {"dir", "file"}
     /\ PermissionsFit)
        => /\ Get(path_result).kind = "returns"
           /\ Get(path_result).value = Some(path)
           /\ \A i \in 1..Len(Get(path_result).ops) :
                 Get(path_result).ops[i] \notin {"isdir", "isfile"}

\* the symlink to the directory, neither directories nor files allowed
C26_Witness ==
    /\ PathCalled
    /\ path_module = "sidlogism"
    /\ path = Under(<<"k">>)
    /\ PathStat = Some(Directory)
    /\ AllowedCategories = {"symlink"}
    /\ flags.mustbe_symlink
    /\ Get(path_result).kind = "returns"
    /\ Get(path_result).value = Some(path)


\* the lexical step let the path pass
LexicallyAccepted == Get(path_result).rule # "invalid chars"

\* the characters the claim lists: word characters, '.', '-', '_', both
\* separators, '~' and ':'
ListedChars == WordChars \cup {".", "-", "_", "/", "\\", "~", ":"}

\* C28 as stated: the lexical step accepts a path only if every character
\* is a word character or one of . - _ / \ ~ : and rejects a path with any
\* other character, a space included.
C28_AsStated ==
    (PathCalled /\ ValidParametrization /\ PathEncodable) =>
        (LexicallyAccepted <=> \A i \in 1..Len(path) : path[i] \in ListedChars)

\* C28: the lexical step accepts a path exactly if every character is a
\* word character, one of . - _ / \ ~ : or a space; a path with any other
\* character is rejected.
C28_AcceptsListedCharsAndSpace ==
    (PathCalled /\ ValidParametrization /\ PathEncodable) =>
        (LexicallyAccepted
           <=> \A i \in 1..Len(path) : path[i] \in ListedChars \cup {" "})

\* the missing name with a space passes the lexical step and is looked up
C28_Witness ==
    /\ PathCalled
    /\ path_module = "sidlogism"
    /\ path = Under(<<"n", " ">>)
    /\ flags.maybe_file
    /\ NotFound(Get(path_result))
    /\ Get(path_result).ops = <<"exists">>


\* the path the category and permission steps look at: the path passed in
\* with mustbe_symlink, otherwise its canonical form
CheckedPath ==
    IF flags.mustbe_symlink \/ os_path_realpath(path, os_name, TRUE).exc # ""
    THEN path
    ELSE WithDriveRoot(os_path_realpath(path, os_name, TRUE).value,
                       Normalized(flags), os_name)

\* one step of the order: the rule its error names, whether it would fail,
\* and the call of os or os.path it makes ("" for none) when on
Step(rule, fails, op, on) == [rule |-> rule, fails |-> fails, op |-> op, on |-> on]

\* a step that asks the file system about p: made when on, failing when
\* the answer is bad
Asked(rule, op, p, on, bad) ==
    Step(rule, on /\ Probe(op, p, os_name, file_mode) = bad, op, on)

\* the steps of the claim that do not ask the file system about the
\* canonical path, in order
EarlySteps ==
    LET wl == PathWhitelist(os_name)
        bl == PathBlacklist(os_name)
    IN
    << Step("only one category", Cardinality(Enforced) >= 2, "", FALSE),
       Step("at least one category", AllowedCategories = {}, "", FALSE),
       Step("encoding", ~PathEncodable, "", FALSE),
       Step("blacklist",
            \E i \in 1..Len(path) : \E j \in 1..Len(bl) :
                TokenMatches(bl[j], path[i]),
            "", FALSE),
       Step("whitelist",
            \E i \in 1..Len(path) : \A j \in 1..Len(wl) :
                ~TokenMatches(wl[j], path[i]),
            "", FALSE),
       Step("doesn't exist", PathStat = None, "exists", TRUE) >>

\* the steps of the claim after the existence step, in order, the category
\* and permission steps looking at p; the drive letter step raises nothing
\* and is part of CheckedPath
LateSteps(p) ==
    << Step("symlink loop",
            ~flags.mustbe_symlink
            /\ os_path_realpath(path, os_name, TRUE).exc # "",
            "realpath", ~flags.mustbe_symlink),
       Asked("must be symlink", "islink", p, flags.mustbe_symlink, FALSE),
       Asked("may NOT be symlink", "islink", p,
             "symlink" \notin AllowedCategories, TRUE),
       Asked("must be directory", "isdir", p, flags.mustbe_directory, FALSE),
       Asked("may NOT be directory", "isdir", p,
             ~flags.mustbe_symlink /\ "directory" \notin AllowedCategories,
             TRUE),
       Asked("must be file", "isfile", p, flags.mustbe_file, FALSE),
       Asked("may NOT be file", "isfile", p,
             ~flags.mustbe_symlink /\ "file" \notin AllowedCategories, TRUE),
       Asked("must be readable", "access_R", p, MustBe("R"), FALSE),
       Asked("may NOT be readable", "access_R", p, ~MayBe("R"), TRUE),
       Asked("must be writable", "access_W", p, MustBe("W"), FALSE),
       Asked("may NOT be writable", "access_W", p, ~MayBe("W"), TRUE),
       Asked("must be executable", "access_X", p, MustBe("X"), FALSE),
       Asked("may NOT be executable", "access_X", p, ~MayBe("X"), TRUE) >>

\* the steps in the order of the claim; what the late steps would answer
\* for a path that an early step refuses does not matter for which failing
\* step is the earliest, and is left out
StepsInOrder ==
    LET early == EarlySteps
    IN  IF \E i \in 1..Len(early) : early[i].fails THEN early
        ELSE early \o LateSteps(CheckedPath)

\* the steps that would fail
FailingSteps(steps) == {i \in 1..Len(steps) : steps[i].fails}

\* the last step evaluated: the earliest failing one, or the last one
LastStep(steps) ==
    LET failing == FailingSteps(steps)
    IN  IF failing = {} THEN Len(steps)
        ELSE CHOOSE i \in failing : \A j \in failing : i <= j

RECURSIVE CallsUpTo(_, _)
\* the calls of os and os.path made by the steps 1..n
CallsUpTo(steps, n) ==
    IF n = 0 THEN <<>>
    ELSE CallsUpTo(steps, n - 1)
         \o (IF steps[n].on THEN <<steps[n].op>> ELSE <<>>)

\* the error of a step: the two character steps raise the same error and
\* differ in the pattern it names
RaisedBy(r, rule) ==
    IF rule = "blacklist"
    THEN r.rule = "invalid chars" /\ r.pattern # <<>> /\ r.pattern[2] # "^"
    ELSE IF rule = "whitelist"
    THEN r.rule = "invalid chars" /\ r.pattern # <<>> /\ r.pattern[2] = "^"
    ELSE r.rule = rule

\* C24: the sidlogism version stops at the first failing step of the order
\* parametrization, encoding, blacklist, whitelist, existence,
\* canonicalization, drive letter, must-be-symlink, may-not-be-symlink,
\* must-be-directory, may-not-be-directory, must-be-file, may-not-be-file,
\* readable, writable, executable: the error is that of the earliest failing
\* step, the calls made are those of the steps up to it and of no later
\* one, and the path is returned when no step fails.
C24_FirstFailingStepRaises ==
    (PathCalled /\ path_module = "sidlogism") =>
        LET steps == StepsInOrder
            last == LastStep(steps)
        IN  /\ Get(path_result).ops = CallsUpTo(steps, last)
            /\ IF ~steps[last].fails
               THEN Get(path_result).kind = "returns"
               ELSE /\ Get(path_result).kind # "returns"
                    /\ RaisedBy(Get(path_result), steps[last].rule)

\* the file that must be a directory and may not be readable, but is: both
\* steps would fail and the earlier one raises, before access is called
C24_Witness ==
    /\ PathCalled
    /\ path_module = "sidlogism"
    /\ path = Under(<<"f">>)
    /\ file_mode = {"R"}
    /\ Cardinality(FailingSteps(StepsInOrder)) >= 2
    /\ Get(path_result).rule = "must be directory"
    /\ Get(path_result).ops = <<"exists", "realpath", "isdir">>


\* the call of the test of the drive letter: the bare drive letter on
\* Windows, required to be a directory, every permission allowed
DriveLetterCall ==
    /\ PathCalled
    /\ os_name = "nt"
    /\ path = <<"C", ":">>
    /\ Enforced = {"mustbe_directory"}
    /\ MayBe("R") /\ MayBe("W") /\ MayBe("X")

\* C21: on Windows the call on "C:" with mustbe_directory returns "C:"
\* followed by the separator, in both versions; and a call returns the path
\* passed in with the separator appended only with mustbe_directory, only on
\* Windows and only for a path of a letter and a colon.
C21_DriveLetterGetsSeparator ==
    /\ DriveLetterCall =>
          /\ Get(path_result).kind = "returns"
          /\ Get(path_result).value = Some(<<"C", ":", "\\">>)
    /\ (FirstReturned /\ ReturnedPath = path \o <<os_sep(os_name)>>) =>
          /\ Normalized(flags).mustbe_directory
          /\ os_name = "nt"
          /\ Len(path) = 2 /\ path[1] \in AsciiLetters /\ path[2] = ":"

====
